---------------------------- MODULE Spec2Model ----------------------------
(***************************************************************************)
(* A model of the BuyEuropean analysis client (src/src/buyeuropean/api.py, *)
(* class BuyEuropeanAPI): the headers and the remembered analysis id,      *)
(* get_location_data, image_to_base64, analyze_product and send_feedback,  *)
(* and the normalisation analyze_product applies to the parsed response.   *)
(*                                                                         *)
(* Python and JSON values are tagged records, because the code tells them  *)
(* apart by type and by truth value:                                       *)
(*   a scalar is [type, v]   with type in absent/null/int/str/list,        *)
(*   a name   is [type, chars] with chars a sequence of characters,        *)
(* "absent" standing for a key the mapping does not hold.                  *)
(***************************************************************************)
EXTENDS Integers, Sequences, FiniteSets

VARIABLES
    last_analysis_id,   \* BuyEuropeanAPI.last_analysis_id
    op,                 \* the public operation that returned last
    args,               \* what that call was given: arguments and the replies of the network
    result,             \* what that call returned
    raised,             \* the exception that left that call, "none" if it returned
    post,               \* the POST that call issued, NoPost if it issued none
    post_headers,       \* the headers of that POST
    calls,              \* the calls that call made, in order
    failure,            \* the message and cause of the exception that left that call
    system,             \* platform.system() of the process
    headers,            \* BuyEuropeanAPI.headers
    ever_succeeded,     \* history: some analyze_product call returned a result
    returned_id,        \* history: the id of the latest returned result that holds an id
    last_success_id,    \* history: the id entry of the latest returned result
    threads,            \* the threads that share the client, NoThreads outside SpecThreads
    gui                 \* the window of a front-end, NoGui outside SpecGui

vars == <<last_analysis_id, op, args, result, raised, post, post_headers, calls,
          failure, system, headers, ever_succeeded, returned_id, last_success_id,
          threads, gui>>

--------------------------------------------------------------------------
(* Bounds of the model. *)

\* longest name of an alternatives entry, in characters
MaxNameLen == 2

\* longest alternatives list of a response
MaxAlts == 2

--------------------------------------------------------------------------
(* Values. *)

Absent == [type |-> "absent", v |-> ""]
None == [type |-> "null", v |-> ""]
Num(n) == [type |-> "int", v |-> n]
Str(s) == [type |-> "str", v |-> s]

\* Python's truth value of a scalar: None, 0 and "" are false.
Truthy(x) ==
    ~ \/ x.type = "null"
      \/ (x.type = "int" /\ x.v = "0")
      \/ (x.type = "str" /\ x.v = "")

\* The characters names are drawn from: a lower-case letter, an upper-case
\* letter and a character without case.
Chars == {"a", "B", "1"}

Upper(c) == CASE c = "a" -> "A" [] c = "b" -> "B" [] OTHER -> c

Lower(c) == CASE c = "A" -> "a" [] c = "B" -> "b" [] OTHER -> c

Strings(n) == UNION {[1..k -> Chars] : k \in 0..n}

AbsentName == [type |-> "absent", chars |-> <<>>]
NullName == [type |-> "null", chars |-> <<>>]
\* a name that is a non-zero number: true, and no string
NumName == [type |-> "int", chars |-> <<>>]
StrName(s) == [type |-> "str", chars |-> s]

NameTruthy(n) == n.type = "int" \/ (n.type = "str" /\ n.chars # <<>>)

NameValues == {AbsentName, NullName, NumName} \cup {StrName(s) : s \in Strings(MaxNameLen)}

\* An entry of alternatives: a mapping with a name and a `by` text, or a
\* number where a mapping was expected.
\* Names of two words, a space between them.
TwoWordNames == {StrName(<<c1, " ", c2>>) : c1, c2 \in Chars}

MapEntryBy(n, byline) == [kind |-> "map", name |-> n, by |-> byline]
MapEntry(n) == MapEntryBy(n, Str("by acme (germany)"))
NumEntry == [kind |-> "num", name |-> AbsentName, by |-> Absent]

Entries == {MapEntry(n) : n \in NameValues} \cup {NumEntry}

NoAlternatives == [present |-> FALSE, items |-> <<>>]
Alternatives(items) == [present |-> TRUE, items |-> items]

AlternativesValues(n) ==
    {NoAlternatives} \cup {Alternatives(s) : s \in UNION {[1..k -> Entries] : k \in 0..n}}

\* The ids a response may carry.
IdValues == {None, Num("0"), Str(""), Str("a1"), Str("b2")}

ClassificationValues ==
    {Str("european"), Str("european_country"), Str("european_sceptic"), Str("bogus")}

LegacyAlternatives == [type |-> "list", v |-> "[{product_name: acme cola, company: acme}]"]

\* A parsed JSON body: a mapping, or a JSON value that is no mapping.
MapBody(id, cls, alts, pot, comp) ==
    [kind |-> "map", id |-> id, classification |-> cls, alternatives |-> alts,
     potential_alternatives |-> pot, identified_company |-> comp]

NonMapBody ==
    [kind |-> "nonmap", id |-> Absent, classification |-> Absent,
     alternatives |-> NoAlternatives, potential_alternatives |-> Absent,
     identified_company |-> Absent]

\* Python's None as the value analyze_product returns.
NoneResult ==
    [kind |-> "none", id |-> Absent, classification |-> Absent,
     alternatives |-> NoAlternatives, potential_alternatives |-> Absent,
     identified_company |-> Absent]

--------------------------------------------------------------------------
(* BuyEuropeanAPI.__init__ and _get_browser_headers: the header set.  A    *)
(* formatted string is the sequence of its pieces.                        *)

VERSION == "1.0.0"

\* The OS names platform.system() reports.
Systems == {"Linux", "Windows", "Darwin"}

\* A slip: the OS name is used as it is reported.
PlatformNameRaw(os) == os

\* system_platform: "Darwin" is rewritten to "macOS".
PlatformName(os) == IF os = "Darwin" THEN "macOS" ELSE os

\* f"BuyEuropean Desktop Client ({system_platform}) {VERSION}"
UserAgent(system_platform) ==
    <<"BuyEuropean Desktop Client (", system_platform, ") ", VERSION>>

\* f'"{system_platform}"'
Quoted(system_platform) == <<"\"", system_platform, "\"">>

SecHeaders(system_platform) ==
    [sec_ch_ua |-> "\"BuyEuropean Desktop\";v=\"1\"", sec_ch_ua_mobile |-> "?0",
     sec_ch_ua_platform |-> Quoted(system_platform)]

\* The tuple (user_agent, sec_headers) for an OS name.
get_browser_headers(os) ==
    [user_agent |-> UserAgent(PlatformName(os)), sec_headers |-> SecHeaders(PlatformName(os))]

\* self.headers, as __init__ builds it.
Headers(os) ==
    LET browser == get_browser_headers(os)
    IN  [sec_ch_ua |-> browser.sec_headers.sec_ch_ua,
         sec_ch_ua_mobile |-> browser.sec_headers.sec_ch_ua_mobile,
         sec_ch_ua_platform |-> browser.sec_headers.sec_ch_ua_platform,
         user_agent |-> browser.user_agent,
         accept |-> "*/*", accept_language |-> "en-US,en;q=0.9",
         content_type |-> "application/json", origin |-> "https://buyeuropean.io",
         priority |-> "u=1, i", referer |-> "https://buyeuropean.io/",
         sec_fetch_dest |-> "empty", sec_fetch_mode |-> "cors",
         sec_fetch_site |-> "cross-site"]

\* No request was sent: there are no headers of it.
NoHeaders == [user_agent |-> <<>>]

--------------------------------------------------------------------------
(* Python's str.capitalize: the first character upper-cased, every other  *)
(* character lower-cased; the empty string is left as it is.              *)

\* A slip: str.title in place of str.capitalize, the first character of every
\* word upper-cased.
CapitalizeTitle(s) ==
    [i \in 1..Len(s) |->
        IF i = 1 \/ s[i - 1] = " " THEN Upper(s[i]) ELSE Lower(s[i])]

\* A slip: only the first character is changed, the others keep their case.
CapitalizeFirstOnly(s) ==
    IF s = <<>> THEN s ELSE [i \in 1..Len(s) |-> IF i = 1 THEN Upper(s[i]) ELSE s[i]]

\* A slip: the name is lower-cased throughout, its first character too.
CapitalizeAsLower(s) == [i \in 1..Len(s) |-> Lower(s[i])]

Capitalize(s) ==
    IF s = <<>> THEN s
    ELSE <<Upper(s[1])>> \o [i \in 1..(Len(s) - 1) |-> Lower(s[i + 1])]

--------------------------------------------------------------------------
(* The exceptions the client meets, by class name.  Each is a subclass of *)
(* Exception.                                                             *)

PyExceptions ==
    {"ValueError", "TypeError", "AttributeError", "ConnectionError", "JSONDecodeError",
     "IndexError", "OSError", "FileNotFoundError", "UnidentifiedImageError"}

--------------------------------------------------------------------------
(* The replies of the network and the files, as the calls see them.       *)

\* The POST of requests.post: it raises, or answers with a status and a
\* body that response.json() parses or rejects.
NetFailure == [net |-> "exception", status |-> 0, json |-> "none", body |-> NonMapBody]
HttpReply(status, json, body) == [net |-> "ok", status |-> status, json |-> json, body |-> body]

\* The placeholder get_location_data returns when the lookup fails.
UnknownLocation == [city |-> Str("Unknown"), country |-> Str("Unknown"), country_code |-> Str("XX")]

\* The geolocation GET: it raises, or answers with a body that is no JSON, a
\* JSON value that is no mapping, or a JSON mapping.
LocAnswer(net, json, kind, city, country, code) ==
    [kind |-> kind, net |-> net, json |-> json, city |-> city, country_code |-> code,
     country_name |-> country]
LocFailure == LocAnswer("exception", "none", "nonmap", Absent, Absent, Absent)
LocInvalidJson == LocAnswer("ok", "invalid", "nonmap", Absent, Absent, Absent)
LocNonMap == LocAnswer("ok", "ok", "nonmap", Absent, Absent, Absent)
LocReply(city, country, code) == LocAnswer("ok", "ok", "map", city, country, code)

\* The picture of an image file, as Pillow opens it: its mode, whether its
\* info holds a transparency entry, its size, and the colour and alpha of its
\* pixels (alpha 0 is fully transparent, 255 opaque).
Picture(mode, transparency, size, colour, alpha) ==
    [mode |-> mode, transparency |-> transparency, size |-> size, colour |-> colour,
     alpha |-> alpha]

NoPicture == Picture("none", FALSE, <<0, 0>>, "none", 255)

\* An image file: its path, whether its bytes can be read, whether Pillow
\* decodes it, and its picture.
ImageFile(path, readable, decodes, picture) ==
    [path |-> path, readable |-> readable, decodes |-> decodes, picture |-> picture]

NoPost == [endpoint |-> "none"]

--------------------------------------------------------------------------
(* BuyEuropeanAPI.get_location_data *)

\* A slip: `data.get(key) or default`, the default also for a value that is
\* present and false.
GetOrDefault(value, default) == IF value = Absent \/ ~ Truthy(value) THEN default ELSE value

\* dict.get(key, default)
Get(value, default) == IF value = Absent THEN default ELSE value

\* The try block: the GET, response.json(), and the mapping built from the
\* parsed body; data.get raises on a body that is no mapping.
LocateTry(loc) ==
    IF loc.net = "exception" THEN [exc |-> "ConnectionError", val |-> UnknownLocation]
    ELSE IF loc.json # "ok" THEN [exc |-> "JSONDecodeError", val |-> UnknownLocation]
    ELSE IF loc.kind # "map" THEN [exc |-> "AttributeError", val |-> UnknownLocation]
    ELSE [exc |-> "none",
          val |-> [city |-> Get(loc.city, Str("Unknown")),
                   country |-> Get(loc.country_name, Str("Unknown")),
                   country_code |-> Get(loc.country_code, Str("XX"))]]

\* A slip: only the exceptions of the requests library are caught.
LocateCatchesRequestErrors(exc) == exc = "ConnectionError"

\* except Exception as e
LocateCatches(exc) == exc \in PyExceptions

\* A slip: the failure of the lookup is passed on to the caller.
get_location_data_raising(loc) == LocateTry(loc)

\* What the call raises (exc) and what it returns (val).
get_location_data(loc) ==
    LET t == LocateTry(loc)
    IN  IF t.exc # "none" /\ LocateCatches(t.exc)
        THEN [exc |-> "none", val |-> UnknownLocation]
        ELSE t

--------------------------------------------------------------------------
(* BuyEuropeanAPI.image_to_base64: the re-encoded JPEG, else the raw      *)
(* bytes, else ValueError.  Each step yields the exception it raises, the *)
(* call that raised it (at) and its value (out).                              *)

ImageModes == {"RGB", "RGBA", "LA", "P", "L", "CMYK", "1"}

\* The bands of a mode, as img.split() yields them.
Bands(mode) ==
    CASE mode = "RGB" -> <<"R", "G", "B">>
      [] mode = "RGBA" -> <<"R", "G", "B", "A">>
      [] mode = "LA" -> <<"L", "A">>
      [] mode = "CMYK" -> <<"C", "M", "Y", "K">>
      [] OTHER -> <<mode>>

\* quality=90
JpegQuality == 90

\* The bytes of a JPEG of a picture, and the bytes of a file as they are.
JpegBytes(img) == [format |-> "JPEG", quality |-> JpegQuality, content |-> img]
FileBytes(file) == [format |-> "file", quality |-> 0, content |-> file.picture]
NoBytes == [format |-> "none", quality |-> 0, content |-> NoPicture]

\* base64.b64encode(...).decode('utf-8')
B64(bytes) == [b64 |-> bytes]

NoError == [exc |-> "none", at |-> "none"]
NoMessage == [path |-> "", text |-> NoError]

\* img.mode in ('RGBA', 'LA') or (img.mode == 'P' and 'transparency' in img.info)
HasTransparency(img) ==
    img.mode \in {"RGBA", "LA"} \/ (img.mode = "P" /\ img.transparency)

\* Image.new('RGB', img.size, (255, 255, 255))
NewBackground(size) == Picture("RGB", FALSE, size, "white", 255)

\* img.split()[3]: the fourth band, IndexError for a mode of fewer bands.
AlphaBand(img) ==
    IF Len(Bands(img.mode)) >= 4
    THEN [exc |-> "none", at |-> "none", out |-> img.alpha]
    ELSE [exc |-> "IndexError", at |-> "split", out |-> 0]

\* background.paste(img, mask=...): the picture where the mask is opaque, the
\* background where it is transparent.
PasteMasked(background, img, mask) ==
    [background EXCEPT !.colour = IF mask = 0 THEN background.colour ELSE img.colour]

\* background.paste(img): the picture, whatever its transparency.
Paste(background, img) == [background EXCEPT !.colour = img.colour]

\* The branch of a picture with transparency.
Composite(img) ==
    LET background == NewBackground(img.size)
    IN  IF img.mode \in {"RGBA", "LA"}
        THEN LET mask == AlphaBand(img)
             IN  IF mask.exc # "none" THEN [exc |-> mask.exc, at |-> mask.at, out |-> img]
                 ELSE [exc |-> "none", at |-> "none",
                       out |-> PasteMasked(background, img, mask.out)]
        ELSE [exc |-> "none", at |-> "none", out |-> Paste(background, img)]

\* A slip: a greyscale picture is left as it is.
ConvertRGBButGrey(img) ==
    IF img.mode = "L" THEN img
    ELSE [img EXCEPT !.mode = "RGB", !.transparency = FALSE, !.alpha = 255]

\* img.convert('RGB')
ConvertRGB(img) == [img EXCEPT !.mode = "RGB", !.transparency = FALSE, !.alpha = 255]

\* The if/elif on img.mode.
ToRGB(img) ==
    IF HasTransparency(img) THEN Composite(img)
    ELSE IF img.mode # "RGB" THEN [exc |-> "none", at |-> "none", out |-> ConvertRGB(img)]
    ELSE [exc |-> "none", at |-> "none", out |-> img]

\* img.save(buffer, format='JPEG', quality=90): the encoder writes the modes
\* without alpha or palette and rejects the others.
SaveJpeg(img) ==
    IF img.mode \in {"RGB", "L", "CMYK", "1"}
    THEN [exc |-> "none", at |-> "none", out |-> JpegBytes(img)]
    ELSE [exc |-> "OSError", at |-> "save", out |-> NoBytes]

\* The try block: open, convert, save, encode.
Reencode(file) ==
    IF ~ file.readable
    THEN [exc |-> "FileNotFoundError", at |-> "Image.open", out |-> B64(NoBytes)]
    ELSE IF ~ file.decodes
    THEN [exc |-> "UnidentifiedImageError", at |-> "Image.open", out |-> B64(NoBytes)]
    ELSE LET rgb == ToRGB(file.picture)
         IN  IF rgb.exc # "none"
             THEN [exc |-> rgb.exc, at |-> rgb.at, out |-> B64(NoBytes)]
             ELSE LET saved == SaveJpeg(rgb.out)
                  IN  [exc |-> saved.exc, at |-> saved.at, out |-> B64(saved.out)]

\* The fallback: the bytes of the file as they are.
ReadRaw(file) ==
    IF file.readable THEN [exc |-> "none", at |-> "none", out |-> B64(FileBytes(file))]
    ELSE [exc |-> "FileNotFoundError", at |-> "open", out |-> B64(NoBytes)]

\* A slip: the error of the fallback is reported, not the first one.
HardFailureOfFallback(file, first, second) ==
    [exc |-> "ValueError", val |-> B64(NoBytes),
     message |-> [path |-> file.path, text |-> second], cause |-> second,
     steps |-> <<"Image.open", "open">>]

\* raise ValueError(f"Could not process image at {image_path}: {e}") from e
HardFailure(file, first, second) ==
    [exc |-> "ValueError", val |-> B64(NoBytes),
     message |-> [path |-> file.path, text |-> first], cause |-> first,
     steps |-> <<"Image.open", "open">>]

\* except Exception as e, except Exception as e2
ImageCatches(exc) == exc \in PyExceptions

\* What the call raises (exc, with message and cause), what it returns (val)
\* and the calls it made on the file.
image_to_base64(file) ==
    LET first == Reencode(file)
    IN  IF first.exc = "none"
        THEN [exc |-> "none", val |-> first.out, message |-> NoMessage, cause |-> NoError,
              steps |-> <<"Image.open">>]
        ELSE IF ~ ImageCatches(first.exc)
        THEN [exc |-> first.exc, val |-> first.out, message |-> NoMessage,
              cause |-> NoError, steps |-> <<"Image.open">>]
        ELSE LET second == ReadRaw(file)
             IN  IF second.exc = "none"
                 THEN [exc |-> "none", val |-> second.out, message |-> NoMessage,
                       cause |-> NoError, steps |-> <<"Image.open", "open">>]
                 ELSE HardFailure(file, [exc |-> first.exc, at |-> first.at],
                                  [exc |-> second.exc, at |-> second.at])

--------------------------------------------------------------------------
(* BuyEuropeanAPI.analyze_product, the branch of an HTTP 200 reply.  Each *)
(* step yields the exception it raises ("none" if it runs through) and    *)
(* its value.                                                             *)

\* result = response.json(): the parsed body, or the parser's exception.
ParseJson(reply) ==
    IF reply.json = "ok" THEN [exc |-> "none", val |-> reply.body]
    ELSE [exc |-> "JSONDecodeError", val |-> NonMapBody]

\* A slip: the id is stored only while none is remembered.
StoreIdKeepFirst(last, parsed) ==
    IF parsed.id # Absent /\ ~ Truthy(last) THEN parsed.id ELSE last

\* if "id" in result: self.last_analysis_id = result["id"]
StoreId(last, parsed) == IF parsed.id # Absent THEN parsed.id ELSE last

\* A slip: the legacy value is never recognized, nothing is rewritten.
MapClassificationNever(parsed) == parsed

\* A slip: every classification that starts with "european" is rewritten.
MapClassificationPrefix(parsed) ==
    IF parsed.classification \in
           {Str("european"), Str("european_country"), Str("european_sceptic")}
    THEN [parsed EXCEPT !.classification = Str("european_country")]
    ELSE parsed

\* classification = result.get("classification"); "european" is rewritten.
MapClassification(parsed) ==
    IF parsed.classification = Str("european")
    THEN [parsed EXCEPT !.classification = Str("european_country")]
    ELSE parsed

\* alt["name"] = alt["name"].capitalize(): a name that is no string has no
\* such method.
CapitalizeName(name) ==
    IF name.type = "str" THEN [exc |-> "none", val |-> StrName(Capitalize(name.chars))]
    ELSE [exc |-> "AttributeError", val |-> name]

\* One pass of the loop over result["alternatives"]: `"name" in alt` raises
\* on a number; a name that is present and true is capitalized.
NormalizeEntry(alt) ==
    IF alt.kind # "map" THEN [exc |-> "TypeError", val |-> alt]
    ELSE IF alt.name # AbsentName /\ NameTruthy(alt.name)
         THEN LET c == CapitalizeName(alt.name)
              IN  [exc |-> c.exc, val |-> [alt EXCEPT !.name = c.val]]
         ELSE [exc |-> "none", val |-> alt]

\* if "alternatives" in result and result["alternatives"]: every entry is
\* normalized in order; the first exception ends the loop.
NormalizeAlternatives(parsed) ==
    IF parsed.alternatives.present /\ parsed.alternatives.items # <<>>
    THEN LET items == parsed.alternatives.items
             outs == [i \in 1..Len(items) |-> NormalizeEntry(items[i])]
             bad == {i \in 1..Len(items) : outs[i].exc # "none"}
         IN  IF bad # {}
             THEN [exc |-> outs[CHOOSE i \in bad : \A j \in bad : i <= j].exc,
                   val |-> parsed]
             ELSE [exc |-> "none",
                   val |-> [parsed EXCEPT !.alternatives.items =
                                [i \in 1..Len(items) |-> outs[i].val]]]
    ELSE [exc |-> "none", val |-> parsed]

\* The whole branch: what it raises (exc), what it returns (ret), and the id
\* that is remembered when it ends.  A body that is no mapping raises before anything is stored.
OnStatus200(last, reply) ==
    LET parsed == ParseJson(reply)
    IN  IF parsed.exc # "none"
        THEN [exc |-> parsed.exc, ret |-> NoneResult, remembered |-> last]
        ELSE IF parsed.val.kind # "map"
        THEN [exc |-> "TypeError", ret |-> NoneResult, remembered |-> last]
        ELSE LET stored == StoreId(last, parsed.val)
                 normal == NormalizeAlternatives(MapClassification(parsed.val))
             IN  IF normal.exc # "none"
                 THEN [exc |-> normal.exc, ret |-> NoneResult, remembered |-> stored]
                 ELSE [exc |-> "none", ret |-> normal.val, remembered |-> stored]

--------------------------------------------------------------------------
(* BuyEuropeanAPI.analyze_product *)

\* A slip: the placeholder is sent whatever the lookup returned.
AnalysisPayloadUnknownLocation(image, location) ==
    [endpoint |-> "analyze-product", image |-> image, userLocation |-> UnknownLocation]

\* payload, as it is POSTed to API_ENDPOINT
AnalysisPayload(image, location) ==
    [endpoint |-> "analyze-product", image |-> image, userLocation |-> location]

\* A slip: a failed POST is tried again.
PostWithRetry(before) == before \o <<"requests.post", "requests.post">>

\* requests.post(API_ENDPOINT, ...), after the calls made before it.
PostOnce(before) == Append(before, "requests.post")

\* The try block.
AnalyzeTry(last, file, loc, reply) ==
    LET user_location == get_location_data(loc)
        image_base64 == image_to_base64(file)
    IN  IF user_location.exc # "none"
        THEN [exc |-> user_location.exc, ret |-> NoneResult, remembered |-> last,
              sent |-> NoPost, called |-> <<"get_location_data">>]
        ELSE IF image_base64.exc # "none"
        THEN [exc |-> image_base64.exc, ret |-> NoneResult, remembered |-> last,
              sent |-> NoPost, called |-> <<"get_location_data", "image_to_base64">>]
        ELSE LET payload == AnalysisPayload(image_base64.val, user_location.val)
                 called == PostOnce(<<"get_location_data", "image_to_base64">>)
             IN  IF reply.net = "exception"
                 THEN [exc |-> "ConnectionError", ret |-> NoneResult, remembered |-> last,
                       sent |-> payload, called |-> called]
                 ELSE IF reply.status = 200
                 THEN LET r == OnStatus200(last, reply)
                      IN  [exc |-> r.exc, ret |-> r.ret, remembered |-> r.remembered,
                           sent |-> payload, called |-> called]
                 ELSE [exc |-> "none", ret |-> NoneResult, remembered |-> last,
                       sent |-> payload, called |-> called]

\* A slip: only the exceptions of the requests library are caught.
AnalyzeCatchesRequestErrors(exc) == exc \in {"ConnectionError", "JSONDecodeError"}

\* except Exception as e
AnalyzeCatches(exc) == exc \in PyExceptions

analyze_product(last, file, loc, reply) ==
    LET t == AnalyzeTry(last, file, loc, reply)
    IN  IF t.exc # "none" /\ AnalyzeCatches(t.exc)
        THEN [t EXCEPT !.exc = "none", !.ret = NoneResult]
        ELSE t

--------------------------------------------------------------------------
(* BuyEuropeanAPI.send_feedback *)

\* The six "what was wrong" flags of a feedback submission.
WrongFlags ==
    {"wrong_product", "wrong_brand", "wrong_country", "wrong_classification",
     "wrong_alternatives", "wrong_other"}

\* The payload of the POST, from the remembered id and the arguments (fb).
FeedbackPayload(last, fb) ==
    [endpoint |-> "feedback", analysis_id |-> last, is_positive |-> fb.is_positive,
     wrong_product |-> "wrong_product" \in fb.wrong,
     wrong_brand |-> "wrong_brand" \in fb.wrong,
     wrong_country |-> "wrong_country" \in fb.wrong,
     wrong_classification |-> "wrong_classification" \in fb.wrong,
     wrong_alternatives |-> "wrong_alternatives" \in fb.wrong,
     wrong_other |-> "wrong_other" \in fb.wrong,
     feedback_text |-> fb.feedback_text]

\* The arguments of a call: the flags that are set are the members of wrong.
FeedbackArgs(is_positive, wrong, text) ==
    [is_positive |-> is_positive, wrong |-> wrong, feedback_text |-> text]

\* The mappings send_feedback deals in: a parsed body, or one it builds.
FeedbackMapping(status, message) == [kind |-> "map", status |-> status, message |-> message]
FeedbackNonMap == [kind |-> "nonmap", status |-> "", message |-> ""]

FeedbackReply(status, json, body) == [net |-> "ok", status |-> status, json |-> json, body |-> body]
FeedbackNetFailure == [net |-> "exception", status |-> 0, json |-> "none", body |-> FeedbackNonMap]

NoAnalysisIdMessage == "No analysis ID available for feedback"

\* f"API error: {response.status_code}"
ApiErrorMessage(status) ==
    CASE status = 404 -> "API error: 404"
      [] status = 500 -> "API error: 500"
      [] OTHER -> "API error: other"

\* str(e): the text of the exception, here its class name
ExceptionText(exc) == exc

\* A slip: the test for a remembered id is left out.
NoAnalysisIdNever(last) == FALSE

\* if not self.last_analysis_id: the local error
NoAnalysisId(last) == ~ Truthy(last)

\* The try block: the POST, then the parsed body of a 200 reply or the
\* mapping for any other status.
FeedbackTry(reply) ==
    IF reply.net = "exception" THEN [exc |-> "ConnectionError", ret |-> FeedbackNonMap]
    ELSE IF reply.status = 200
    THEN IF reply.json = "ok" THEN [exc |-> "none", ret |-> reply.body]
         ELSE [exc |-> "JSONDecodeError", ret |-> FeedbackNonMap]
    ELSE [exc |-> "none", ret |-> FeedbackMapping("error", ApiErrorMessage(reply.status))]

\* except Exception as e
FeedbackCatches(exc) == exc \in PyExceptions

send_feedback(last, fb, reply) ==
    IF NoAnalysisId(last)
    THEN [exc |-> "none", ret |-> FeedbackMapping("error", NoAnalysisIdMessage),
          sent |-> NoPost, called |-> <<>>]
    ELSE LET t == FeedbackTry(reply)
             payload == FeedbackPayload(last, fb)
         IN  IF t.exc # "none" /\ FeedbackCatches(t.exc)
             THEN [exc |-> "none", ret |-> FeedbackMapping("error", ExceptionText(t.exc)),
                   sent |-> payload, called |-> <<"requests.post">>]
             ELSE [exc |-> t.exc, ret |-> t.ret, sent |-> payload,
                   called |-> <<"requests.post">>]

--------------------------------------------------------------------------
(* The inputs of a client session. *)

\* longest side of a picture, in pixels
MaxSide == 2

Sizes == {<<w, h>> : w, h \in 1..MaxSide}

Colours == {"black", "white"}

\* The pictures of the image files: every mode; a transparency entry for a
\* palette picture only, and transparent pixels only where the mode or the
\* entry gives them.
Pictures ==
    {pic \in {Picture(m, t, sz, c, a) : m \in ImageModes, t \in BOOLEAN, sz \in Sizes,
                                        c \in Colours, a \in {0, 255}} :
        /\ pic.transparency => pic.mode = "P"
        /\ pic.alpha = 0 => HasTransparency(pic)}

Photo == Picture("RGB", FALSE, <<2, 1>>, "black", 255)

\* A photo, a file that is no image, and a path without a file.
SessionFiles ==
    {ImageFile("photo.jpg", TRUE, TRUE, Photo), ImageFile("notes.txt", TRUE, FALSE, NoPicture),
     ImageFile("missing.png", FALSE, FALSE, NoPicture)}

\* The files image_to_base64 is called on: those, and a file of every picture.
ImageFiles ==
    SessionFiles \cup {ImageFile("picture.png", TRUE, TRUE, pic) : pic \in Pictures}

Berlin == LocReply(Str("Berlin"), Str("Germany"), Str("DE"))

SessionLocations == {LocFailure, Berlin}

\* The replies get_location_data is called on: every failure, and a mapping
\* with each field present, null, empty or missing.
LocationReplies ==
    {LocFailure, LocInvalidJson, LocNonMap}
    \cup {LocReply(city, country, code) :
            city \in {Absent, None, Str("Berlin")},
            country \in {Absent, Str(""), Str("Germany")},
            code \in {Absent, Str("DE")}}

\* No alternatives, a well-formed list, and the two lists normalization raises
\* on: an entry that is no mapping, and a name that is no string after an
\* entry that was normalized.
SessionAlternatives ==
    {NoAlternatives,
     Alternatives(<<MapEntry(StrName(<<"a", "B">>))>>),
     Alternatives(<<NumEntry>>),
     Alternatives(<<MapEntry(StrName(<<"a", "B">>)), MapEntry(NumName)>>)}

SessionBodies ==
    {MapBody(id, Absent, alts, LegacyAlternatives, Str("test company")) :
        id \in IdValues \cup {Absent}, alts \in SessionAlternatives}
    \cup {MapBody(id, Str("european"), NoAlternatives, Absent, Str("test company")) :
        id \in {Absent, Str("a1")}}
    \cup {NonMapBody}

SessionReplies ==
    {NetFailure, HttpReply(500, "none", NonMapBody), HttpReply(200, "invalid", NonMapBody)}
    \cup {HttpReply(200, "ok", b) : b \in SessionBodies}

SessionFeedbackArgs ==
    {FeedbackArgs(TRUE, {}, ""),
     FeedbackArgs(FALSE, {"wrong_product"}, "not this brand"),
     FeedbackArgs(FALSE, WrongFlags, "")}

SessionFeedbackReplies ==
    {FeedbackNetFailure, FeedbackReply(500, "none", FeedbackNonMap),
     FeedbackReply(404, "none", FeedbackNonMap),
     FeedbackReply(200, "invalid", FeedbackNonMap),
     FeedbackReply(200, "ok", FeedbackNonMap),
     FeedbackReply(200, "ok", FeedbackMapping("success", "Feedback received")),
     FeedbackReply(200, "ok", FeedbackMapping("error", "Unknown analysis"))}

--------------------------------------------------------------------------
(* The client as a state machine: construction, then any sequence of      *)
(* analyze_product and send_feedback calls, one at a time.                *)

NoArgs == [call |-> "none"]

\* no thread was started on the client, no window was built
NoThreads == [pc |-> <<>>]
NoGui == [toolkit |-> "none"]

NoFailure == [message |-> NoMessage, cause |-> NoError]

\* BuyEuropeanAPI.__init__
Init ==
    /\ last_analysis_id = None
    /\ op = "init"
    /\ args = NoArgs
    /\ result = NoneResult
    /\ raised = "none"
    /\ post = NoPost
    /\ post_headers = NoHeaders
    /\ calls = <<>>
    /\ failure = NoFailure
    /\ system \in Systems
    /\ headers = Headers(system)
    /\ ever_succeeded = FALSE
    /\ returned_id = Absent
    /\ last_success_id = Absent
    /\ threads = NoThreads
    /\ gui = NoGui

\* The call returned a result: it did not raise and did not return None.
Returned(r) == r.exc = "none" /\ r.ret # NoneResult

\* headers=self.headers, of a POST that was issued
HeadersOf(sent) == IF sent = NoPost THEN NoHeaders ELSE headers

\* The call's outcome is computed once (r) and handed to the state.
AnalyzeProduct(file, loc, reply) ==
    \E r \in {analyze_product(last_analysis_id, file, loc, reply)} :
        /\ last_analysis_id' = r.remembered
        /\ op' = "analyze_product"
        /\ args' = [loc |-> loc, file |-> file, reply |-> reply, call |-> "analyze_product"]
        /\ result' = r.ret
        /\ raised' = r.exc
        /\ post' = r.sent
        /\ post_headers' = HeadersOf(r.sent)
        /\ calls' = r.called
        /\ failure' = NoFailure
        /\ ever_succeeded' = (ever_succeeded \/ Returned(r))
        /\ returned_id' = IF Returned(r) /\ r.ret.id # Absent THEN r.ret.id ELSE returned_id
        /\ last_success_id' = IF Returned(r) THEN r.ret.id ELSE last_success_id
        /\ UNCHANGED <<system, headers, threads, gui>>

SendFeedback(fb, reply) ==
    \E r \in {send_feedback(last_analysis_id, fb, reply)} :
        /\ op' = "send_feedback"
        /\ args' = [reply |-> reply, fb |-> fb, call |-> "send_feedback"]
        /\ result' = r.ret
        /\ raised' = r.exc
        /\ post' = r.sent
        /\ post_headers' = HeadersOf(r.sent)
        /\ calls' = r.called
        /\ failure' = NoFailure
        /\ UNCHANGED <<last_analysis_id, system, headers, ever_succeeded, returned_id,
                       last_success_id, threads, gui>>

GetLocationData(loc) ==
    \E r \in {get_location_data(loc)} :
        /\ op' = "get_location_data"
        /\ args' = [loc |-> loc, call |-> "get_location_data"]
        /\ result' = r.val
        /\ raised' = r.exc
        /\ post' = NoPost
        /\ post_headers' = NoHeaders
        /\ calls' = <<"requests.get">>
        /\ failure' = NoFailure
        /\ UNCHANGED <<last_analysis_id, system, headers, ever_succeeded, returned_id,
                       last_success_id, threads, gui>>

ImageToBase64(file) ==
    \E r \in {image_to_base64(file)} :
        /\ op' = "image_to_base64"
        /\ args' = [file |-> file, call |-> "image_to_base64"]
        /\ result' = r.val
        /\ raised' = r.exc
        /\ post' = NoPost
        /\ post_headers' = NoHeaders
        /\ calls' = r.steps
        /\ failure' = [message |-> r.message, cause |-> r.cause]
        /\ UNCHANGED <<last_analysis_id, system, headers, ever_succeeded, returned_id,
                       last_success_id, threads, gui>>

Analyze == \E file \in SessionFiles, loc \in SessionLocations, reply \in SessionReplies :
               AnalyzeProduct(file, loc, reply)

Feedback == \E fb \in SessionFeedbackArgs, reply \in SessionFeedbackReplies :
                SendFeedback(fb, reply)

Next == Analyze \/ Feedback

Spec == Init /\ [][Next]_vars

--------------------------------------------------------------------------
(* The two helpers of analyze_product, called on their own on a client as  *)
(* constructed: get_location_data on every reply of the geolocation       *)
(* service, image_to_base64 on every image file.                          *)

Locate == \E loc \in LocationReplies : GetLocationData(loc)

Encode == \E file \in ImageFiles : ImageToBase64(file)

NextHelpers == Locate \/ Encode

SpecHelpers == Init /\ [][NextHelpers]_vars

--------------------------------------------------------------------------
(* The normalisation of one response: a fresh client is handed an HTTP    *)
(* 200 reply drawn from every body within the bounds, and analyze_product *)
(* is called once.                                                        *)

\* Every alternatives list within the bounds, every classification and id
\* with each shape of alternatives (none, well-formed, malformed), and an
\* entry for every name of two words.
NormalizeBodies ==
    {MapBody(Str("a1"), Str("european_sceptic"), alts, LegacyAlternatives,
             Str("test company")) : alts \in AlternativesValues(MaxAlts)}
    \cup {MapBody(id, cls, alts, pot, Str("test company")) :
            id \in {Absent, Str("a1")}, cls \in ClassificationValues \cup {Absent},
            alts \in SessionAlternatives, pot \in {Absent, LegacyAlternatives}}
    \cup {MapBody(Str("a1"), Str("european_sceptic"), Alternatives(<<MapEntry(n)>>),
                  Absent, Str("test company")) : n \in TwoWordNames}

InitNormalize ==
    /\ last_analysis_id = None
    /\ op = "init"
    /\ \E b \in NormalizeBodies :
           args = [loc |-> LocFailure, file |-> ImageFile("photo.jpg", TRUE, TRUE, Photo),
                   reply |-> HttpReply(200, "ok", b), call |-> "pending"]
    /\ result = NoneResult
    /\ raised = "none"
    /\ post = NoPost
    /\ post_headers = NoHeaders
    /\ calls = <<>>
    /\ failure = NoFailure
    /\ system = "Linux"
    /\ headers = Headers(system)
    /\ ever_succeeded = FALSE
    /\ returned_id = Absent
    /\ last_success_id = Absent
    /\ threads = NoThreads
    /\ gui = NoGui

AnalyzePending == op = "init" /\ AnalyzeProduct(args.file, args.loc, args.reply)

NextNormalize == AnalyzePending

SpecNormalize == InitNormalize /\ [][NextNormalize]_vars

--------------------------------------------------------------------------
(* Properties of the remembered analysis id. *)

\* C1: on a client on which no analyze_product call has ever succeeded,
\* send_feedback returns exactly {status: "error", message: "No analysis ID
\* available for feedback"} and issues no POST.
C1_FeedbackBeforeAnySuccess ==
    (op = "send_feedback" /\ ~ ever_succeeded)
        => /\ raised = "none"
           /\ result = FeedbackMapping("error", NoAnalysisIdMessage)
           /\ post.endpoint = "none"

\* C2: a send_feedback call that issues a POST carries as analysis_id the id
\* of the most recent analyze_product call that returned a result containing
\* an id.
C2_FeedbackCarriesReturnedId ==
    (op = "send_feedback" /\ post.endpoint = "feedback")
        => post.analysis_id = returned_id

\* C3: every analyze_product call that returns null and every send_feedback
\* call leaves last_analysis_id exactly as it was before the call.
C3_IdChangesOnlyOnSuccess ==
    [][((op' = "analyze_product" /\ result' = NoneResult) \/ op' = "send_feedback")
           => last_analysis_id' = last_analysis_id]_vars

\* The id a result carries, None for a result without one.
IdOf(r) == Get(r.id, None)

\* C4, as claimed: after every analyze_product call that returns a non-null
\* result, the remembered id is the id of that result.
C4_IdOfEveryResult ==
    (op = "analyze_product" /\ raised = "none" /\ result # NoneResult)
        => last_analysis_id = IdOf(result)

\* C4, amended: after every analyze_product call that returns a non-null
\* result, the remembered id is the id of that result if the result contains
\* an id, and is what it was before the call if the result contains none.
C4_IdOfResultWithId ==
    [][(op' = "analyze_product" /\ raised' = "none" /\ result' # NoneResult)
           => last_analysis_id' =
                  IF result'.id # Absent THEN result'.id ELSE last_analysis_id]_vars

\* C4's case: a result without an id was returned and an older id is still
\* remembered.
C4_Witness ==
    /\ op = "analyze_product"
    /\ result # NoneResult
    /\ result.id = Absent
    /\ last_analysis_id = Str("a1")

\* C5: whenever the last successful analysis returned an id that is not null
\* (0 and the empty string included), send_feedback issues the POST instead
\* of returning the local error.
C5_NonNullIdIsPosted ==
    (op = "send_feedback" /\ last_success_id # Absent /\ last_success_id # None)
        => post.endpoint = "feedback"

--------------------------------------------------------------------------
(* Properties of the failure handling. *)

\* Normalizing the alternatives of a body raises: an entry is no mapping, or
\* a name is a number.
MalformedAlternatives(b) ==
    \E i \in 1..Len(b.alternatives.items) :
        \/ b.alternatives.items[i].kind # "map"
        \/ b.alternatives.items[i].name.type = "int"

\* The failures of an analysis, read off the inputs of the call: the image's
\* hard failure, a network exception, a non-200 status, a body that is no
\* JSON, a body that normalization raises on.
AnalysisFailure(a) ==
    \/ (~ a.file.decodes /\ ~ a.file.readable)
    \/ a.reply.net = "exception"
    \/ a.reply.status # 200
    \/ a.reply.json # "ok"
    \/ a.reply.body.kind # "map"
    \/ MalformedAlternatives(a.reply.body)

\* C6: analyze_product never raises, and returns null for every failure.
C6_AnalyzeAbsorbsFailures ==
    op = "analyze_product"
        => /\ raised = "none"
           /\ AnalysisFailure(args) => result = NoneResult

\* C6's case: a 200 reply with a JSON mapping on which normalization raised.
C6_Witness ==
    /\ op = "analyze_product"
    /\ args.reply.net = "ok"
    /\ args.reply.status = 200
    /\ args.reply.json = "ok"
    /\ args.reply.body.kind = "map"
    /\ MalformedAlternatives(args.reply.body)
    /\ raised = "none"
    /\ result = NoneResult

\* C7: send_feedback never raises and returns a mapping: the parsed body when
\* the POST answers 200 with a body that parses, and otherwise a mapping with
\* status "error" and a message.
C7_FeedbackReturnsMapping ==
    op = "send_feedback"
        => /\ raised = "none"
           /\ result.kind = "map"
           /\ IF post.endpoint = "feedback" /\ args.reply.net = "ok"
                 /\ args.reply.status = 200 /\ args.reply.json = "ok"
              THEN result = args.reply.body
              ELSE result.status = "error" /\ result.message # ""

--------------------------------------------------------------------------
(* Properties of the normalisation, under SpecNormalize. *)

\* The call was answered 200 with a JSON mapping.
Answered200 ==
    /\ op = "analyze_product"
    /\ args.reply.net = "ok"
    /\ args.reply.status = 200
    /\ args.reply.json = "ok"
    /\ args.reply.body.kind = "map"

\* C8, as claimed: for every HTTP 200 response whose classification is
\* "european", analyze_product returns a result whose classification is
\* "european_country".
C8_EuropeanRewritten ==
    (Answered200 /\ args.reply.body.classification = Str("european"))
        => /\ result # NoneResult
           /\ result.classification = Str("european_country")

\* C8, amended: for every HTTP 200 response whose classification is
\* "european", analyze_product returns null if normalizing the alternatives
\* raises and otherwise a result whose classification is "european_country";
\* "european" is never returned.
C8_EuropeanRewrittenOrNull ==
    (Answered200 /\ args.reply.body.classification = Str("european"))
        => /\ raised = "none"
           /\ IF MalformedAlternatives(args.reply.body)
              THEN result = NoneResult
              ELSE result # NoneResult /\ result.classification = Str("european_country")

\* C8's case: a "european" response came back as "european_country".
C8_Witness ==
    /\ Answered200
    /\ args.reply.body.classification = Str("european")
    /\ result.classification = Str("european_country")

\* C9: a returned result equals the parsed response except that "european" is
\* rewritten and names of alternatives entries may differ: every other
\* classification, every other key, the legacy potential_alternatives and
\* every other field of every alternatives entry are as received.
C9_OnlyNormalizedValuesChange ==
    (op = "analyze_product" /\ result # NoneResult)
        => LET b == args.reply.body
           IN  /\ result.kind = b.kind
               /\ b.classification # Str("european")
                      => result.classification = b.classification
               /\ result.id = b.id
               /\ result.identified_company = b.identified_company
               /\ result.potential_alternatives = b.potential_alternatives
               /\ result.alternatives.present = b.alternatives.present
               /\ Len(result.alternatives.items) = Len(b.alternatives.items)
               /\ \A i \in 1..Len(b.alternatives.items) :
                      [result.alternatives.items[i] EXCEPT
                           !.name = b.alternatives.items[i].name]
                          = b.alternatives.items[i]

\* C9's case: an unknown classification and legacy alternatives were returned
\* beside an alternatives entry whose name was changed.
C9_Witness ==
    /\ op = "analyze_product"
    /\ result # NoneResult
    /\ result.classification = Str("bogus")
    /\ result.potential_alternatives = LegacyAlternatives
    /\ \E i \in 1..Len(result.alternatives.items) :
           result.alternatives.items[i].name # args.reply.body.alternatives.items[i].name

\* Every entry of the body's alternatives is a mapping with a non-empty
\* string as name.
AllNamed(b) ==
    /\ b.alternatives.present
    /\ b.alternatives.items # <<>>
    /\ \A i \in 1..Len(b.alternatives.items) :
           /\ b.alternatives.items[i].kind = "map"
           /\ b.alternatives.items[i].name.type = "str"
           /\ b.alternatives.items[i].name.chars # <<>>

\* C10: for every HTTP 200 response whose alternatives entries carry a
\* non-empty name, each returned name is the received name capitalized: the
\* same letters, the first character being the upper-case form of the first
\* character received.
C10_NamesCapitalized ==
    (Answered200 /\ AllNamed(args.reply.body))
        => /\ result # NoneResult
           /\ Len(result.alternatives.items) = Len(args.reply.body.alternatives.items)
           /\ \A i \in 1..Len(args.reply.body.alternatives.items) :
                  LET received == args.reply.body.alternatives.items[i].name.chars
                      returned == result.alternatives.items[i].name
                  IN  /\ returned.type = "str"
                      /\ Len(returned.chars) = Len(received)
                      /\ returned.chars[1] = Upper(received[1])
                      /\ \A k \in 1..Len(received) :
                             Lower(returned.chars[k]) = Lower(received[k])

\* C10's case: the name "aB" of the second of two entries came back with an
\* upper-case first character.
C10_Witness ==
    /\ Answered200
    /\ AllNamed(args.reply.body)
    /\ Len(result.alternatives.items) = 2
    /\ args.reply.body.alternatives.items[2].name.chars = <<"a", "B">>
    /\ result.alternatives.items[2].name.chars[1] = "A"

\* Position i of a name starts a word: it is the first position, or follows a
\* space.
WordStart(chars, i) == i = 1 \/ chars[i - 1] = " "

\* C11, as claimed: every returned name is in title-case, the first letter of
\* every word being upper-case.
C11_NamesTitleCased ==
    (Answered200 /\ AllNamed(args.reply.body))
        => /\ result # NoneResult
           /\ \A i \in 1..Len(result.alternatives.items) :
                  LET returned == result.alternatives.items[i].name.chars
                  IN  \A k \in 1..Len(returned) :
                          WordStart(returned, k) => returned[k] = Upper(returned[k])

\* C11, amended: every returned name is the received name with its first
\* character upper-cased and every other character lower-cased, the first
\* letters of its later words included.
C11_NamesFirstUpperRestLower ==
    (Answered200 /\ AllNamed(args.reply.body))
        => /\ result # NoneResult
           /\ Len(result.alternatives.items) = Len(args.reply.body.alternatives.items)
           /\ \A i \in 1..Len(args.reply.body.alternatives.items) :
                  LET received == args.reply.body.alternatives.items[i].name.chars
                      returned == result.alternatives.items[i].name.chars
                  IN  /\ DOMAIN returned = DOMAIN received
                      /\ \A k \in DOMAIN received :
                             returned[k] = IF k = 1 THEN Upper(received[k])
                                           ELSE Lower(received[k])

\* C11's case: the two-word name "a B" came back as "A b", its second word in
\* lower case.
C11_Witness ==
    /\ Answered200
    /\ Len(result.alternatives.items) = 1
    /\ args.reply.body.alternatives.items[1].name.chars = <<"a", " ", "B">>
    /\ result.alternatives.items[1].name.chars = <<"A", " ", "b">>

--------------------------------------------------------------------------
(* Properties of the request analyze_product sends. *)

\* C12: the body analyze_product POSTs has exactly the keys image and
\* userLocation (beside the endpoint it goes to): image is the string
\* image_to_base64 returns for the file, userLocation the mapping
\* get_location_data returns for the reply of the lookup.
C12_PostedBody ==
    (op = "analyze_product" /\ post.endpoint # "none")
        => /\ DOMAIN post = {"endpoint", "image", "userLocation"}
           /\ post.endpoint = "analyze-product"
           /\ post.image = image_to_base64(args.file).val
           /\ post.userLocation = get_location_data(args.loc).val

\* C12's case: the photo and the location Berlin, Germany, DE were posted.
C12_Witness ==
    /\ op = "analyze_product"
    /\ post.endpoint = "analyze-product"
    /\ post.image = B64(JpegBytes(Photo))
    /\ post.userLocation =
           [city |-> Str("Berlin"), country |-> Str("Germany"), country_code |-> Str("DE")]

\* The positions of a call in the calls of the last operation.
CallsOf(name) == {i \in DOMAIN calls : calls[i] = name}

\* C13: within one analyze_product call the POST is issued at most once, only
\* after get_location_data and then image_to_base64 have returned, and not at
\* all when image_to_base64 raises its ValueError.
C13_LocateEncodePost ==
    op = "analyze_product"
        => /\ Cardinality(CallsOf("requests.post")) <= 1
           /\ (post.endpoint # "none") = (CallsOf("requests.post") # {})
           /\ \A p \in CallsOf("requests.post") :
                  \E l \in CallsOf("get_location_data"), e \in CallsOf("image_to_base64") :
                      l < e /\ e < p
           /\ \A l \in CallsOf("get_location_data"), e \in CallsOf("image_to_base64") : l < e
           /\ (~ args.file.decodes /\ ~ args.file.readable)
                  => CallsOf("requests.post") = {}

\* C13's case: the lookup, the encoding and one POST, in this order.
C13_Witness ==
    /\ op = "analyze_product"
    /\ calls = <<"get_location_data", "image_to_base64", "requests.post">>
    /\ post.endpoint = "analyze-product"

--------------------------------------------------------------------------
(* Properties of get_location_data. *)

\* The lookup failed: the GET raised, or its body is no JSON mapping.
LookupFails(loc) == loc.net = "exception" \/ loc.json # "ok" \/ loc.kind # "map"

\* C14: get_location_data never raises, and returns {city: "Unknown",
\* country: "Unknown", country_code: "XX"} whenever the GET raises or its body
\* cannot be read as a JSON mapping.
C14_LocateAbsorbsFailures ==
    op = "get_location_data"
        => /\ raised = "none"
           /\ LookupFails(args.loc)
                  => result = [city |-> Str("Unknown"), country |-> Str("Unknown"),
                               country_code |-> Str("XX")]

\* C14's case: a body that is JSON but no mapping gave the placeholder.
C14_Witness ==
    /\ op = "get_location_data"
    /\ args.loc.net = "ok"
    /\ args.loc.json = "ok"
    /\ args.loc.kind = "nonmap"
    /\ raised = "none"
    /\ result.country_code = Str("XX")

\* C15: for every JSON mapping of the geolocation service the returned
\* mapping has exactly the keys city, country and country_code, holding the
\* body's city, country_name and country_code, each one that is missing
\* replaced on its own by "Unknown", "Unknown", "XX".
C15_LocationFields ==
    (op = "get_location_data" /\ ~ LookupFails(args.loc))
        => /\ DOMAIN result = {"city", "country", "country_code"}
           /\ result.city =
                  IF args.loc.city = Absent THEN Str("Unknown") ELSE args.loc.city
           /\ result.country =
                  IF args.loc.country_name = Absent THEN Str("Unknown")
                  ELSE args.loc.country_name
           /\ result.country_code =
                  IF args.loc.country_code = Absent THEN Str("XX")
                  ELSE args.loc.country_code

\* C15's case: a body without city, with an empty country_name and with a
\* country_code: only the city is replaced.
C15_Witness ==
    /\ op = "get_location_data"
    /\ ~ LookupFails(args.loc)
    /\ args.loc.city = Absent
    /\ result = [city |-> Str("Unknown"), country |-> Str(""), country_code |-> Str("DE")]

\* C16: when the lookup fails analyze_product does not raise, still calls
\* image_to_base64 and, unless that raises, issues the POST with the
\* placeholder as userLocation; what it returns is what it returns for the
\* same file and response when the lookup succeeds.
C16_LookupFailureAbsorbed ==
    (op = "analyze_product" /\ LookupFails(args.loc))
        => /\ raised = "none"
           /\ CallsOf("image_to_base64") # {}
           /\ IF ~ args.file.decodes /\ ~ args.file.readable
              THEN post.endpoint = "none"
              ELSE /\ post.endpoint = "analyze-product"
                   /\ post.userLocation =
                          [city |-> Str("Unknown"), country |-> Str("Unknown"),
                           country_code |-> Str("XX")]
           /\ result = analyze_product(None, args.file, Berlin, args.reply).ret

\* C16's case: the lookup failed and the analysis returned a result.
C16_Witness ==
    /\ op = "analyze_product"
    /\ args.loc.net = "exception"
    /\ post.endpoint = "analyze-product"
    /\ post.userLocation.country_code = Str("XX")
    /\ result # NoneResult

--------------------------------------------------------------------------
(* Properties of image_to_base64, under SpecHelpers. *)

\* The picture carries transparency: an alpha channel, or a palette with a
\* transparency entry.
CarriesTransparency(pic) ==
    pic.mode = "RGBA" \/ pic.mode = "LA" \/ (pic.mode = "P" /\ pic.transparency)

\* C17: every image that carries transparency is returned as the re-encoded
\* JPEG, never as the bytes of the file, and its fully transparent pixels come
\* out white.
C17_TransparencyOnWhite ==
    (op = "image_to_base64" /\ args.file.decodes /\ CarriesTransparency(args.file.picture))
        => /\ raised = "none"
           /\ result.b64.format = "JPEG"
           /\ args.file.picture.alpha = 0 => result.b64.content.colour = "white"

\* C18: whenever the image is re-encoded, the picture handed to the JPEG
\* encoder is in mode RGB and has the size of the input.
C18_EncoderGetsRGB ==
    (op = "image_to_base64" /\ result.b64.format = "JPEG")
        => /\ result.b64.content.mode = "RGB"
           /\ result.b64.content.size = args.file.picture.size

\* C18's case: a CMYK picture of 2 by 1 pixels was re-encoded.
C18_Witness ==
    /\ op = "image_to_base64"
    /\ args.file.picture.mode = "CMYK"
    /\ args.file.picture.size = <<2, 1>>
    /\ result.b64.format = "JPEG"

\* The fallback was taken: the file was opened a second time, for its bytes.
FellBack == CallsOf("open") # {}

\* C19: a re-encoding that succeeds returns the JPEG; one that fails falls
\* back (a file Pillow cannot decode always does) and returns the bytes of
\* the file as they are, without raising, if they can be read, and raises
\* ValueError otherwise, with the path, and with the first error as the text
\* of the message and as the cause.
C19_TwoTierFallback ==
    op = "image_to_base64"
        => /\ raised \in {"none", "ValueError"}
           /\ ~ args.file.decodes => FellBack
           /\ ~ FellBack => (raised = "none" /\ result.b64.format = "JPEG")
           /\ (FellBack /\ args.file.readable)
                  => /\ raised = "none"
                     /\ result.b64.format = "file"
                     /\ result.b64.content = args.file.picture
           /\ (FellBack /\ ~ args.file.readable)
                  => /\ raised = "ValueError"
                     /\ failure.message.path = args.file.path
                     /\ failure.message.text = failure.cause
                     /\ failure.cause.exc # "none"
                     /\ failure.cause.at = "Image.open"

\* C19's case: neither the decoding nor the reading worked.
C19_Witness ==
    /\ op = "image_to_base64"
    /\ calls = <<"Image.open", "open">>
    /\ raised = "ValueError"
    /\ failure.message.path = "missing.png"
    /\ failure.cause.at = "Image.open"

--------------------------------------------------------------------------
(* Properties of the headers. *)

\* The platform name the claim gives for an OS name.
ClaimedPlatform == IF system = "Darwin" THEN "macOS" ELSE system

\* C20: the headers never change after construction, every POST carries
\* them, user-agent is "BuyEuropean Desktop Client (<platform>) 1.0.0" with
\* "Darwin" rewritten to "macOS" and every other OS name as it is, and
\* sec-ch-ua-platform is that platform name in double quotes.
C20_FixedHeaders ==
    /\ [](/\ headers.user_agent =
                 <<"BuyEuropean Desktop Client (", ClaimedPlatform, ") ", "1.0.0">>
          /\ headers.sec_ch_ua_platform = <<"\"", ClaimedPlatform, "\"">>
          /\ post.endpoint # "none" => post_headers = headers)
    /\ [][headers' = headers]_vars

\* C20's case: on macOS an analysis POST and then a feedback POST went out.
C20_Witness ==
    /\ system = "Darwin"
    /\ op = "send_feedback"
    /\ post.endpoint = "feedback"
    /\ post_headers.user_agent[2] = "macOS"
    /\ post_headers.sec_ch_ua_platform[2] = "macOS"

--------------------------------------------------------------------------
(* The normalisation, once more: what it does to the case of a name. *)

\* C29: in a returned result every non-empty name has its first character
\* upper-cased and every other character lower-cased, so that upper-case
\* letters after the first are lost; an entry whose name is missing, null or
\* empty is returned as it was received, at its position; and normalizing the
\* returned result once more changes nothing.
C29_CaseLostAndIdempotent ==
    (Answered200 /\ result # NoneResult)
        => /\ Len(result.alternatives.items) = Len(args.reply.body.alternatives.items)
           /\ \A i \in 1..Len(args.reply.body.alternatives.items) :
                  LET received == args.reply.body.alternatives.items[i]
                      returned == result.alternatives.items[i]
                  IN  IF received.name.type = "str" /\ received.name.chars # <<>>
                      THEN /\ returned.name.type = "str"
                           /\ Len(returned.name.chars) = Len(received.name.chars)
                           /\ returned.name.chars[1] = Upper(received.name.chars[1])
                           /\ \A k \in 2..Len(received.name.chars) :
                                  returned.name.chars[k] = Lower(received.name.chars[k])
                           /\ returned.by = received.by
                      ELSE returned = received
           /\ NormalizeAlternatives(result) = [exc |-> "none", val |-> result]

\* C29's case: the name "BB" came back as "Bb", beside an entry without a
\* name that came back as it was.
C29_Witness ==
    /\ Answered200
    /\ Len(result.alternatives.items) = 2
    /\ args.reply.body.alternatives.items[1].name.chars = <<"B", "B">>
    /\ result.alternatives.items[1].name.chars = <<"B", "b">>
    /\ args.reply.body.alternatives.items[2].name = AbsentName
    /\ result.alternatives.items[2] = args.reply.body.alternatives.items[2]

--------------------------------------------------------------------------
(* The choice of the GUI toolkit (platform.py).  What the functions read   *)
(* from the interpreter is an environment: sys.platform, split after its   *)
(* stem ("linux2" is <<"linux", "2">>), platform.machine(), and for each   *)
(* toolkit what importing it does.                                         *)

SysPlatforms ==
    {<<"linux">>, <<"linux", "2">>, <<"win", "32">>, <<"darwin">>,
     <<"cygwin">>, <<"freebsd", "14">>}

Machines == {"x86_64", "aarch64", "Android-arm64"}

\* what "import gi; gi.require_version('Gtk', '4.0'); ..." does
GtkImports == {"ok", "ImportError", "ValueError"}

\* what "from PyQt6.QtWidgets import QApplication; ..." does
QtImports == {"ok", "ImportError"}

Environments ==
    [sys_platform : SysPlatforms, machine : Machines, gtk : GtkImports, qt : QtImports]

\* sys.platform.startswith(prefix)
StartsWith(sys_platform, prefix) == sys_platform[1] = prefix

\* "android" in platform.machine().lower()
MachineIsAndroid(machine) == machine \in {"Android-arm64", "android-arm64"}

is_linux(env) == StartsWith(env.sys_platform, "linux")

is_windows(env) == StartsWith(env.sys_platform, "win")

is_macos(env) == StartsWith(env.sys_platform, "darwin")

is_android(env) == StartsWith(env.sys_platform, "linux") /\ MachineIsAndroid(env.machine)

should_use_gtk(env, force_gtk, force_qt) ==
    IF force_gtk THEN TRUE
    ELSE IF force_qt THEN FALSE
    ELSE is_linux(env) \/ is_windows(env)

should_use_qt(env, force_gtk, force_qt) ==
    IF force_qt THEN TRUE
    ELSE IF force_gtk THEN FALSE
    ELSE is_macos(env) \/ is_android(env) \/ ~should_use_gtk(env, force_gtk, force_qt)

GtkRequestedMessage(e) == <<"GTK4 was explicitly requested but could not be loaded: ", e>>

QtRequestedMessage(e) == <<"Qt6 was explicitly requested but could not be loaded: ", e>>

NeitherMessage == <<"Neither GTK4 nor Qt6 is available. Please install one of them.">>

\* return GtkApp / return QtApp / raise ImportError(message); tried lists the
\* toolkits whose import was attempted, in order.
Chosen(class, tried) == [exc |-> "none", message |-> <<>>, class |-> class, tried |-> tried]

NotChosen(message, tried) ==
    [exc |-> "ImportError", message |-> message, class |-> "none", tried |-> tried]

\* A slip: a forced toolkit that cannot be loaded is replaced by the other one.
get_ui_toolkit_substituting(env, force_gtk, force_qt) ==
    IF (force_gtk \/ (should_use_gtk(env, force_gtk, force_qt) /\ ~force_qt)) /\ env.gtk = "ok"
    THEN Chosen("GtkApp", <<"gtk">>)
    ELSE IF env.qt = "ok" THEN Chosen("QtApp", <<"gtk", "qt">>)
    ELSE NotChosen(NeitherMessage, <<"gtk", "qt">>)

get_ui_toolkit(env, force_gtk, force_qt) ==
    LET enters == force_gtk \/ (should_use_gtk(env, force_gtk, force_qt) /\ ~force_qt)
        before == IF enters THEN <<"gtk">> ELSE <<>>
        tried  == Append(before, "qt")
    IN  IF enters /\ env.gtk = "ok" THEN Chosen("GtkApp", before)
        ELSE IF enters /\ force_gtk
             THEN NotChosen(GtkRequestedMessage(env.gtk), before)
        ELSE IF env.qt = "ok" THEN Chosen("QtApp", tried)
        ELSE IF force_qt THEN NotChosen(QtRequestedMessage(env.qt), tried)
        ELSE NotChosen(NeitherMessage, tried)

\* One interpreter start: an environment and the two flags, then the call.
InitToolkit ==
    /\ last_analysis_id = None
    /\ op = "init"
    /\ args \in [call : {"get_ui_toolkit"}, env : Environments,
                 force_gtk : BOOLEAN, force_qt : BOOLEAN]
    /\ result = NoneResult
    /\ raised = "none"
    /\ post = NoPost
    /\ post_headers = NoHeaders
    /\ calls = <<>>
    /\ failure = NoFailure
    /\ system = "Linux"
    /\ headers = Headers(system)
    /\ ever_succeeded = FALSE
    /\ returned_id = Absent
    /\ last_success_id = Absent
    /\ threads = NoThreads
    /\ gui = NoGui

GetUiToolkit ==
    /\ op = "init"
    /\ \E r \in {get_ui_toolkit(args.env, args.force_gtk, args.force_qt)} :
        /\ op' = "get_ui_toolkit"
        /\ result' = r
        /\ raised' = r.exc
        /\ calls' = r.tried
    /\ UNCHANGED <<last_analysis_id, args, post, post_headers, failure, system, headers,
                   ever_succeeded, returned_id, last_success_id, threads, gui>>

NextToolkit == GetUiToolkit

SpecToolkit == InitToolkit /\ [][NextToolkit]_vars

--------------------------------------------------------------------------
(* The choice of the toolkit: forced toolkits, fallback, and the platform  *)
(* predicates.                                                             *)

ToolkitChosen == op = "get_ui_toolkit"

NoForce == ~args.force_gtk /\ ~args.force_qt

\* The platform as the claims name it.
PlatformKind(env) ==
    CASE env.sys_platform[1] = "linux" /\ MachineIsAndroid(env.machine) -> "Android"
      [] env.sys_platform[1] = "linux" /\ ~MachineIsAndroid(env.machine) -> "Linux"
      [] env.sys_platform[1] = "win" -> "Windows"
      [] env.sys_platform[1] = "darwin" -> "macOS"
      [] OTHER -> "other"

\* C26: a forced toolkit is never replaced by the other one: with force_gtk
\* the call returns the GTK class or raises ImportError, with force_qt and
\* without force_gtk it returns the Qt class or raises ImportError, whatever
\* the platform and whatever can be imported.
C26_ForcedToolkitOrImportError ==
    ToolkitChosen =>
        /\ args.force_gtk =>
              \/ raised = "none" /\ result.class = "GtkApp" /\ args.env.gtk = "ok"
              \/ raised = "ImportError" /\ result.class = "none" /\ args.env.gtk # "ok"
        /\ (args.force_qt /\ ~args.force_gtk) =>
              \/ raised = "none" /\ result.class = "QtApp" /\ args.env.qt = "ok"
              \/ raised = "ImportError" /\ result.class = "none" /\ args.env.qt # "ok"

\* C26's case: GTK was forced, gi.require_version raised ValueError, Qt could
\* have been imported, and the call raised ImportError.
C26_Witness ==
    /\ ToolkitChosen
    /\ args.force_gtk /\ ~args.force_qt
    /\ args.env.gtk = "ValueError" /\ args.env.qt = "ok"
    /\ raised = "ImportError"
    /\ result.message = GtkRequestedMessage("ValueError")

\* C27: without a force flag the call raises ImportError exactly when neither
\* toolkit can be imported; when at least one can, it returns a class.
C27_RaisesIffNeitherAvailable ==
    (ToolkitChosen /\ NoForce) =>
        /\ (raised = "ImportError") <=> (args.env.gtk # "ok" /\ args.env.qt # "ok")
        /\ raised = "none" => result.class \in {"GtkApp", "QtApp"}

\* C28: exactly one of should_use_gtk and should_use_qt is true, the toolkit
\* tried first is the one whose predicate is true, and without flags Android
\* and macOS get Qt, Linux and Windows get GTK.
C28_ExactlyOnePreferred ==
    ToolkitChosen =>
        LET use_gtk == should_use_gtk(args.env, args.force_gtk, args.force_qt)
            use_qt  == should_use_qt(args.env, args.force_gtk, args.force_qt)
            kind    == PlatformKind(args.env)
        IN  /\ use_gtk # use_qt
            /\ calls[1] = "gtk" <=> use_gtk
            /\ calls[1] = "qt" <=> use_qt
            /\ (NoForce /\ kind \in {"Android", "macOS"}) => calls[1] = "qt"
            /\ (NoForce /\ kind \in {"Linux", "Windows"}) => calls[1] = "gtk"

--------------------------------------------------------------------------
(* One client shared by three threads without a lock: two threads call     *)
(* analyze_product, one calls send_feedback.  A thread's step is one       *)
(* access to last_analysis_id together with the code around it that        *)
(* touches nothing shared: analyze_product writes the field once           *)
(* (api.py:160), send_feedback reads it twice (api.py:212 and 216).        *)

Analysts == {"t1", "t2"}

\* the id the service gives the analysis of each thread
ThreadIdOf(t) == IF t = "t1" THEN Str("a1") ELSE Str("b2")

\* What the service may answer a thread: its id with or without a list the
\* normalization raises on, a body without id, a null id, an error status,
\* no answer.
ThreadReplies(t) ==
    {NetFailure, HttpReply(500, "none", NonMapBody)}
    \cup {HttpReply(200, "ok", MapBody(ThreadIdOf(t), Absent, alts, Absent, Str("test company"))) :
            alts \in {NoAlternatives, Alternatives(<<NumEntry>>)}}
    \cup {HttpReply(200, "ok", MapBody(id, Absent, NoAlternatives, Absent, Str("test company"))) :
            id \in {Absent, None}}

\* the id entry a reply carries, Absent if it carries none
CarriedId(reply) ==
    IF reply.net = "ok" /\ reply.status = 200 /\ reply.json = "ok" /\ reply.body.kind = "map"
    THEN reply.body.id ELSE Absent

\* A client that has remembered an id or has not, and the three threads
\* about to call.
InitThreads ==
    /\ last_analysis_id \in {None, Str("a0")}
    /\ op = "init"
    /\ args = NoArgs
    /\ result = NoneResult
    /\ raised = "none"
    /\ post = NoPost
    /\ post_headers = NoHeaders
    /\ calls = <<>>
    /\ failure = NoFailure
    /\ system = "Linux"
    /\ headers = Headers(system)
    /\ ever_succeeded = FALSE
    /\ returned_id = Absent
    /\ last_success_id = Absent
    /\ threads = [pc |-> [t \in Analysts \cup {"f"} |-> "idle"],
                  started |-> <<>>, processed |-> <<>>,
                  wrote |-> [t \in Analysts |-> Absent],
                  rets |-> [t \in Analysts |-> NoneResult],
                  initial |-> last_analysis_id, built |-> NoPost,
                  answer |-> FeedbackNonMap]
    /\ gui = NoGui

ThreadsOnly == <<op, args, result, raised, post, post_headers, calls, failure, system,
                 headers, ever_succeeded, returned_id, last_success_id, gui>>

\* analyze_product up to the POST (api.py:134-152): nothing shared is touched
StartAnalysis(t) ==
    /\ threads.pc[t] = "idle"
    /\ threads' = [threads EXCEPT !.pc[t] = "posted", !.started = Append(@, t)]
    /\ UNCHANGED last_analysis_id
    /\ UNCHANGED ThreadsOnly

\* analyze_product from the response on (api.py:155-186): the one write
ProcessResponse(t, reply) ==
    /\ threads.pc[t] = "posted"
    /\ \E r \in {analyze_product(last_analysis_id, ImageFile("photo.jpg", TRUE, TRUE, Photo),
                                 Berlin, reply)} :
        /\ last_analysis_id' = r.remembered
        /\ threads' = [threads EXCEPT !.pc[t] = "done", !.processed = Append(@, t),
                                      !.wrote[t] = CarriedId(reply), !.rets[t] = r.ret]
    /\ UNCHANGED ThreadsOnly

\* send_feedback, api.py:212-213: the first read
FeedbackCheck ==
    /\ threads.pc["f"] = "idle"
    /\ IF NoAnalysisId(last_analysis_id)
       THEN threads' = [threads EXCEPT !.pc["f"] = "done",
                           !.answer = FeedbackMapping("error", NoAnalysisIdMessage)]
       ELSE threads' = [threads EXCEPT !.pc["f"] = "checked"]
    /\ UNCHANGED last_analysis_id
    /\ UNCHANGED ThreadsOnly

\* send_feedback, api.py:215-225: the second read
FeedbackBuild(fb) ==
    /\ threads.pc["f"] = "checked"
    /\ threads' = [threads EXCEPT !.pc["f"] = "built",
                                  !.built = FeedbackPayload(last_analysis_id, fb)]
    /\ UNCHANGED last_analysis_id
    /\ UNCHANGED ThreadsOnly

\* send_feedback, api.py:227-242: the POST and its answer
FeedbackPost(reply) ==
    /\ threads.pc["f"] = "built"
    /\ \E t \in {FeedbackTry(reply)} :
        threads' = [threads EXCEPT !.pc["f"] = "done",
                        !.answer = IF t.exc # "none" /\ FeedbackCatches(t.exc)
                                   THEN FeedbackMapping("error", ExceptionText(t.exc))
                                   ELSE t.ret]
    /\ UNCHANGED last_analysis_id
    /\ UNCHANGED ThreadsOnly

AnalystStarts == \E t \in Analysts : StartAnalysis(t)

AnalystProcesses == \E t \in Analysts : \E reply \in ThreadReplies(t) : ProcessResponse(t, reply)

FeedbackBuilds == FeedbackBuild(FeedbackArgs(TRUE, {}, ""))

FeedbackPosts == \E reply \in SessionFeedbackReplies : FeedbackPost(reply)

NextThreads ==
    AnalystStarts \/ AnalystProcesses \/ FeedbackCheck \/ FeedbackBuilds \/ FeedbackPosts

SpecThreads == InitThreads /\ [][NextThreads]_vars

--------------------------------------------------------------------------
(* Threads on one client. *)

\* the analysis of thread t returned the result that holds its id
Succeeded(t) ==
    /\ threads.pc[t] = "done"
    /\ threads.rets[t] # NoneResult
    /\ threads.rets[t].id = ThreadIdOf(t)

\* the ids the analyses have written so far
WrittenIds == {threads.wrote[t] : t \in {u \in Analysts : threads.wrote[u] # Absent}}

\* send_feedback has built its payload
FeedbackBuilt == threads.pc["f"] \in {"built", "done"} /\ threads.built # NoPost

--------------------------------------------------------------------------
(* The two front-ends (ui/gtk/app.py, ui/qt/app.py): one window, its       *)
(* client, the worker threads it starts and the callbacks they hand to    *)
(* the UI thread.  The handlers are modelled by their bodies; calls into   *)
(* the toolkit are taken to do what their names say.                       *)

\* analyses one session starts
MaxAnalyses == 2

\* threads of send_positive_feedback that wait to run (GTK)
MaxFeedbackThreads == 1

Toolkits == {"gtk", "qt"}

FailedToAnalyze == "Failed to analyze product. Please try again."

PhotoFile == ImageFile("photo.jpg", TRUE, TRUE, Photo)

GuiBody(id, alts) == MapBody(id, Absent, alts, Absent, Str("test company"))

\* What the service answers an analysis of the session: an error status, a
\* result with an id, one without, one whose list the normalization raises
\* on, and one whose entry has a null `by`.
GuiReplies ==
    {HttpReply(500, "none", NonMapBody),
     HttpReply(200, "ok", GuiBody(Str("a1"), NoAlternatives)),
     HttpReply(200, "ok", GuiBody(Str("b2"), Alternatives(<<MapEntry(StrName(<<"a">>))>>))),
     HttpReply(200, "ok", GuiBody(Absent, NoAlternatives)),
     HttpReply(200, "ok", GuiBody(Str("b2"), Alternatives(<<NumEntry>>))),
     HttpReply(200, "ok", GuiBody(Str("a1"), Alternatives(<<MapEntryBy(StrName(<<"a">>), None)>>)))}

GuiFeedbackReplies ==
    {FeedbackNetFailure, FeedbackReply(500, "none", FeedbackNonMap),
     FeedbackReply(200, "ok", FeedbackMapping("success", "Feedback received")),
     FeedbackReply(200, "ok", FeedbackMapping("error", "Unknown analysis"))}

PositiveFeedback == FeedbackArgs(TRUE, {}, "")

NegativeFeedback == FeedbackArgs(FALSE, {"wrong_product"}, "not this brand")

\* what a feedback call led the window to show
Notice(kind, message) == [kind |-> kind, message |-> message]
NoNotice == Notice("none", "")

\* a call of a function on the UI thread: GLib.idle_add, or a queued signal
Callback(fn, res, message) == [message |-> message, fn |-> fn, res |-> res]

\* the last send_feedback call a handler made
NoFeedbackCall ==
    [remembered |-> None, answer |-> FeedbackNonMap, made |-> FALSE, displayed |-> Absent]

FeedbackCall(last, current, r) ==
    [remembered |-> last, answer |-> r.ret, made |-> TRUE, displayed |-> current.id]

\* GtkApp.__init__ / QtApp.__init__ and setup_ui
InitGui ==
    /\ last_analysis_id = None
    /\ op = "init"
    /\ args = NoArgs
    /\ result = NoneResult
    /\ raised = "none"
    /\ post = NoPost
    /\ post_headers = NoHeaders
    /\ calls = <<>>
    /\ failure = NoFailure
    /\ system = "Linux"
    /\ headers = Headers(system)
    /\ ever_succeeded = FALSE
    /\ returned_id = Absent
    /\ last_success_id = Absent
    /\ threads = NoThreads
    /\ \E tk \in Toolkits :
         gui = [toolkit |-> tk, started |-> 0, alive |-> TRUE, selected |-> FALSE,
                enabled |-> FALSE, current_result |-> NoneResult, visible |-> FALSE,
                feedback_box |-> FALSE, workers |-> 0, mainloop |-> <<>>,
                up_threads |-> 0, dialog |-> "none", shown_error |-> "",
                notice |-> NoNotice, last_call |-> NoFeedbackCall,
                emitted |-> 0, reported |-> 0]

GuiOnly == <<op, args, result, raised, post, post_headers, calls, failure, system,
             headers, ever_succeeded, returned_id, last_success_id, threads>>

\* the user can act on the main window: the process runs and no modal
\* dialog is open
MainWindowActive == gui.alive /\ gui.dialog # "open"

\* on_file_dialog_response (gtk) / on_select_image_clicked (qt): a file was
\* chosen; the analyze button is enabled whatever its state was
SelectImage ==
    /\ MainWindowActive
    /\ gui' = [gui EXCEPT !.selected = TRUE, !.enabled = TRUE]
    /\ UNCHANGED last_analysis_id
    /\ UNCHANGED GuiOnly

\* on_analyze_clicked: the click reaches the handler only while the button
\* is enabled
ClickAnalyze ==
    /\ MainWindowActive
    /\ gui.enabled
    /\ gui.selected
    /\ gui.started < MaxAnalyses
    /\ gui' = [gui EXCEPT !.enabled = FALSE, !.visible = FALSE,
                          !.workers = @ + 1, !.started = @ + 1]
    /\ UNCHANGED last_analysis_id
    /\ UNCHANGED GuiOnly

\* analyze_image (gtk) / AnalysisWorker.run (qt): the call on the worker
\* thread, then the callback for the UI thread
WorkerFinishes(reply) ==
    /\ gui.alive
    /\ gui.workers > 0
    /\ \E r \in {analyze_product(last_analysis_id, PhotoFile, Berlin, reply)} :
        /\ last_analysis_id' = r.remembered
        /\ gui' = [gui EXCEPT
                     !.workers = @ - 1,
                     !.emitted = @ + 1,
                     !.mainloop = Append(@, IF r.exc = "none"
                                            THEN Callback("update_results", r.ret, "")
                                            ELSE Callback("show_error", NoneResult,
                                                          ExceptionText(r.exc)))]
    /\ UNCHANGED GuiOnly

\* alt.get("by", "").replace("by ", "") on an entry with a name: raises
\* when `by` is there and is no string
RenderRaises(res) ==
    \E i \in 1..Len(res.alternatives.items) :
        LET alt == res.alternatives.items[i]
        IN  alt.name # AbsentName /\ alt.by.type \notin {"absent", "str"}

\* show_error(message)
ShowError(g, message) ==
    [g EXCEPT !.visible = TRUE, !.shown_error = message, !.enabled = TRUE]

\* update_results(result): the null result is an error; otherwise the result
\* becomes current and is rendered, the feedback buttons are added and the
\* analyze button is enabled.  An exception while rendering leaves the
\* handler before that; in Qt an exception that leaves a slot ends the
\* process.
UpdateResults(g, res) ==
    IF res = NoneResult THEN ShowError(g, FailedToAnalyze)
    ELSE IF RenderRaises(res)
    THEN [g EXCEPT !.current_result = res, !.visible = TRUE, !.shown_error = "",
                   !.alive = (g.toolkit = "gtk")]
    ELSE [g EXCEPT !.current_result = res, !.visible = TRUE, !.shown_error = "",
                   !.feedback_box = TRUE, !.enabled = TRUE]

\* The UI thread runs the next callback.
MainLoop ==
    /\ gui.alive
    /\ gui.mainloop # <<>>
    /\ LET cb   == Head(gui.mainloop)
           rest == [gui EXCEPT !.mainloop = Tail(@)]
       IN  gui' = IF cb.fn = "update_results"
                  THEN [UpdateResults(rest, cb.res) EXCEPT !.reported = @ + 1]
                  ELSE [ShowError(rest, cb.message) EXCEPT !.reported = @ + 1]
    /\ UNCHANGED last_analysis_id
    /\ UNCHANGED GuiOnly

\* The feedback buttons can be clicked: in GTK they sit in the results card,
\* in Qt in the window's main layout.
FeedbackClickable ==
    /\ gui.feedback_box
    /\ gui.toolkit = "gtk" => gui.visible

\* if not self.current_result or not self.current_result.get("id") (gtk)
\* if not self.current_result or "id" not in self.current_result (qt)
HandlerReturnsEarly(tk, current) ==
    \/ current = NoneResult
    \/ current.id = Absent
    \/ tk = "gtk" /\ ~ Truthy(current.id)

Thanks == "Thanks for your feedback!"

\* on_thumbs_up_clicked: GTK starts a thread, Qt calls send_feedback in the
\* handler and tells the user of a success only
ClickThumbsUp ==
    /\ MainWindowActive
    /\ FeedbackClickable
    /\ ~ HandlerReturnsEarly(gui.toolkit, gui.current_result)
    /\ IF gui.toolkit = "gtk"
       THEN /\ gui.up_threads < MaxFeedbackThreads
            /\ gui' = [gui EXCEPT !.up_threads = @ + 1]
       ELSE \E reply \in GuiFeedbackReplies :
              \E r \in {send_feedback(last_analysis_id, PositiveFeedback, reply)} :
                gui' = [gui EXCEPT
                          !.last_call = FeedbackCall(last_analysis_id, gui.current_result, r),
                          !.notice = IF r.ret.status = "success"
                                     THEN Notice("information", Thanks) ELSE NoNotice]
    /\ UNCHANGED last_analysis_id
    /\ UNCHANGED GuiOnly

\* send_positive_feedback (gtk), on its thread; after a success the toast is
\* handed to the UI thread, which shows it and touches nothing else
SendPositiveFeedback(reply) ==
    /\ gui.alive
    /\ gui.up_threads > 0
    /\ \E r \in {send_feedback(last_analysis_id, PositiveFeedback, reply)} :
        gui' = [gui EXCEPT
                  !.up_threads = @ - 1,
                  !.last_call = FeedbackCall(last_analysis_id, gui.current_result, r),
                  !.notice = IF r.ret.status = "success" THEN Notice("toast", Thanks)
                             ELSE NoNotice]
    /\ UNCHANGED last_analysis_id
    /\ UNCHANGED GuiOnly

\* on_thumbs_down_clicked: GTK builds the dialog on a thread, Qt opens it
ClickThumbsDown ==
    /\ MainWindowActive
    /\ FeedbackClickable
    /\ ~ HandlerReturnsEarly(gui.toolkit, gui.current_result)
    /\ gui.dialog = "none"
    /\ gui' = [gui EXCEPT !.dialog = IF gui.toolkit = "gtk" THEN "creating" ELSE "open"]
    /\ UNCHANGED last_analysis_id
    /\ UNCHANGED GuiOnly

\* create_feedback_dialog (gtk), on its thread, up to dialog.present()
CreateFeedbackDialog ==
    /\ gui.alive
    /\ gui.dialog = "creating"
    /\ gui' = [gui EXCEPT !.dialog = "open"]
    /\ UNCHANGED last_analysis_id
    /\ UNCHANGED GuiOnly

\* on_feedback_dialog_response with "submit" (gtk) / the code after
\* dialog.exec() returned Accepted (qt): only Qt has a branch for a failure
SubmitFeedback(reply) ==
    /\ gui.alive
    /\ gui.dialog = "open"
    /\ \E r \in {send_feedback(last_analysis_id, NegativeFeedback, reply)} :
        gui' = [gui EXCEPT
                  !.dialog = "none",
                  !.last_call = FeedbackCall(last_analysis_id, gui.current_result, r),
                  !.notice = IF r.ret.status = "success"
                             THEN IF gui.toolkit = "gtk" THEN Notice("toast", Thanks)
                                  ELSE Notice("information", Thanks)
                             ELSE IF gui.toolkit = "gtk" THEN NoNotice
                                  ELSE Notice("warning", r.ret.message)]
    /\ UNCHANGED last_analysis_id
    /\ UNCHANGED GuiOnly

\* the dialog is cancelled
CancelFeedback ==
    /\ gui.alive
    /\ gui.dialog = "open"
    /\ gui' = [gui EXCEPT !.dialog = "none"]
    /\ UNCHANGED last_analysis_id
    /\ UNCHANGED GuiOnly

WorkerEnds == \E reply \in GuiReplies : WorkerFinishes(reply)

PositiveFeedbackSent == \E reply \in GuiFeedbackReplies : SendPositiveFeedback(reply)

FeedbackSubmitted == \E reply \in GuiFeedbackReplies : SubmitFeedback(reply)

NextGui ==
    \/ SelectImage
    \/ ClickAnalyze
    \/ WorkerEnds
    \/ MainLoop
    \/ ClickThumbsUp
    \/ PositiveFeedbackSent
    \/ ClickThumbsDown
    \/ CreateFeedbackDialog
    \/ FeedbackSubmitted
    \/ CancelFeedback

SpecGui == InitGui /\ [][NextGui]_vars

\* The same window with a UI thread that keeps running: a callback that
\* waits is run.  Nothing makes the service answer or the user click.
SpecGuiFair == SpecGui /\ WF_vars(MainLoop)

--------------------------------------------------------------------------
(* The front-ends: feedback, analyses in flight, reports, warnings. *)

\* C22: whenever a thumbs-up or thumbs-down handler calls send_feedback, the
\* id the client remembers is the id of the window's current_result.
C22_FeedbackForDisplayedResult ==
    gui.last_call.made => gui.last_call.remembered = gui.last_call.displayed

\* an analysis was started and its result or error has not been handled yet
AnalysisInFlight == gui.started > gui.reported

\* C23: at most one analysis is in flight, and while one is, the analyze
\* button is disabled.
C23_OneAnalysisInFlight ==
    /\ gui.started - gui.reported <= 1
    /\ AnalysisInFlight => ~ gui.enabled

\* the UI thread is about to run update_results(None), and runs it
NullResultReported ==
    /\ gui.mainloop # <<>>
    /\ Head(gui.mainloop).fn = "update_results"
    /\ Head(gui.mainloop).res = NoneResult
    /\ gui'.reported = gui.reported + 1

\* C24: every analysis whose call has ended is eventually reported on the UI
\* thread, and with that report the analyze button is enabled again; a null
\* result is shown as "Failed to analyze product. Please try again." and
\* leaves current_result as it was.
C24_EveryAnalysisReported ==
    /\ \A n \in 1..MaxAnalyses :
          (gui.emitted >= n /\ gui.reported < n) ~> (gui.reported >= n /\ gui.enabled)
    /\ [][NullResultReported =>
            /\ gui'.shown_error = FailedToAnalyze
            /\ gui'.current_result = gui.current_result
            /\ gui'.enabled]_vars

\* C25: a send_feedback result whose status is not "success" is shown as a
\* warning that carries the returned message, for positive and for negative
\* feedback.
C25_FailedFeedbackWarned ==
    (gui.last_call.made /\ gui.last_call.answer.status # "success")
        => gui.notice = Notice("warning", gui.last_call.answer.message)

==========================================================================
